---- MODULE Spec2Model ----
(***************************************************************************)
(* Model of the Socket.IO real-time logic of mc_server.js: the tile grid,  *)
(* the player registry, the colour allocator and the four event handlers   *)
(* (connection, move, respawn, disconnect) together with the messages each *)
(* handler emits to the connected sockets.                                 *)
(*                                                                         *)
(* Node runs one handler to completion before the next starts, so every    *)
(* handler is one atomic action.  Sockets are numbered in the order the    *)
(* transport hands them to io.on('connection').                            *)
(***************************************************************************)
EXTENDS Integers, Sequences, FiniteSets, TLC

VARIABLES
  players,  \* players[id] = [id, name, x, y, color]; DOMAIN players = the keys
  tiles,    \* tiles[<<row, col>>] = [ownerId, color]; a null tile is absent
  sock,     \* sock[s] = [state, id]: the s-th socket and the id its closure holds
  inbox,    \* inbox[s] = the messages emitted to socket s, in emit order
  nextId,   \* the next value uuidv4() returns
  last,     \* the event processed last
  events,   \* number of events processed
  peak      \* largest number of players the registry has held at once

vars == <<players, tiles, sock, inbox, nextId, last, events, peak>>

----------------------------------------------------------------------------
(* Bounds of the exploration *)

\* sockets and events per run of Spec and SpecRerun
MaxSockets == 3
MaxEvents == 4

\* sockets and events per run of SpecFill
FillSockets == 13
FillEvents == 14

\* Math.random() returns n / RandDen
RandDen == 1000

\* the numerators Math.random() draws: the least value and the greatest below 1
RandNums == {0, RandDen - 1}

\* the pairs of numerators a spawn or respawn draws for x and y
RandPairs == {<<r, r>> : r \in RandNums}

Deltas == {-1, 0, 1}

NoToken == "<undefined>"
Tokens == {NoToken, "", "_", "ann"}

----------------------------------------------------------------------------
(* Canvas / grid settings *)

CANVAS_WIDTH == 800
CANVAS_HEIGHT == 600
TILE_SIZE == 10
GRID_COLS == CANVAS_WIDTH \div TILE_SIZE
GRID_ROWS == CANVAS_HEIGHT \div TILE_SIZE
speed == 4

COLORS ==
  << "#ff3b30", "#ff9500", "#ffcc00", "#4cd964",
     "#5ac8fa", "#007aff", "#5856d6", "#ff2d55",
     "#00c7be", "#ff9f0a", "#34c759", "#af52de" >>

----------------------------------------------------------------------------
(* Helpers *)

Max(a, b) == IF a >= b THEN a ELSE b
Min(a, b) == IF a <= b THEN a ELSE b

\* Math.floor(Math.random() * n), for Math.random() = r / RandDen
RandomBelow(r, n) == (r * n) \div RandDen

\* JavaScript's null
Null == [null |-> TRUE]

\* the grid resetTiles() builds: every tile null
resetTiles == << >>

\* getRandomColor with the filter inverted: the colours already taken
getRandomColorFromUsed(usedColors, r) ==
  LET available == SelectSeq(COLORS, LAMBDA c : c \in usedColors)
  IN  IF Len(available) = 0
      THEN COLORS[RandomBelow(r, Len(COLORS)) + 1]
      ELSE available[RandomBelow(r, Len(available)) + 1]

\* getRandomColor without the filter on usedColors
getRandomColorUnfiltered(usedColors, r) == COLORS[RandomBelow(r, Len(COLORS)) + 1]

getRandomColor(usedColors, r) ==
  LET available == SelectSeq(COLORS, LAMBDA c : c \notin usedColors)
  IN  IF Len(available) = 0
      THEN COLORS[RandomBelow(r, Len(COLORS)) + 1]
      ELSE available[RandomBelow(r, Len(available)) + 1]

\* clamp with Math.max and Math.min exchanged
clampExchanged(val, min, max) == Min(min, Max(max, val))

\* clamp with the upper limit off by one
clampPastMax(val, min, max) == Max(min, Min(max + 1, val))

clamp(val, min, max) == Max(min, Min(max, val))

\* the { row, col } of paintTileForPlayer with row taken from x and col from y
TilePosTransposed(player) ==
  LET col == player.y \div TILE_SIZE
      row == player.x \div TILE_SIZE
  IN  IF row >= 0 /\ row < GRID_ROWS /\ col >= 0 /\ col < GRID_COLS
      THEN [row |-> row, col |-> col]
      ELSE Null

\* the { row, col } paintTileForPlayer returns, null when out of the grid
TilePos(player) ==
  LET col == player.x \div TILE_SIZE
      row == player.y \div TILE_SIZE
  IN  IF row >= 0 /\ row < GRID_ROWS /\ col >= 0 /\ col < GRID_COLS
      THEN [row |-> row, col |-> col]
      ELSE Null

\* a paintTileForPlayer that computes the index and writes nothing
paintTileSkipped(t, player) == t

\* paintTileForPlayer writing only a tile that is still null
paintTileIfEmpty(t, player) ==
  LET pos == TilePos(player)
  IN  IF pos = Null \/ <<pos.row, pos.col>> \in DOMAIN t
      THEN t
      ELSE [k \in DOMAIN t \cup {<<pos.row, pos.col>>} |->
              IF k = <<pos.row, pos.col>>
              THEN [ownerId |-> player.id, color |-> player.color]
              ELSE t[k]]

\* paintTileForPlayer on a grid it has reset first
paintTileOnResetGrid(t, player) ==
  LET pos == TilePos(player)
  IN  IF pos = Null
      THEN t
      ELSE <<pos.row, pos.col>> :> [ownerId |-> player.id, color |-> player.color]

\* the grid after paintTileForPlayer(player)
paintTileForPlayer(t, player) ==
  LET pos == TilePos(player)
  IN  IF pos = Null
      THEN t
      ELSE LET rc == <<pos.row, pos.col>>
           IN  [k \in DOMAIN t \cup {rc} |->
                  IF k = rc THEN [ownerId |-> player.id, color |-> player.color]
                  ELSE t[k]]

\* players with players[id] = p
Put(ps, id, p) == [k \in DOMAIN ps \cup {id} |-> IF k = id THEN p ELSE ps[k]]

\* a delete keyed by the player's name: every player of that name goes
DeleteByName(ps, id) ==
  IF id \in DOMAIN ps
  THEN [k \in {j \in DOMAIN ps : ps[j].name # ps[id].name} |-> ps[k]]
  ELSE ps

\* a delete that removes nothing
DeleteNothing(ps, id) == ps

\* delete players[id]
Delete(ps, id) == [k \in DOMAIN ps \ {id} |-> ps[k]]

----------------------------------------------------------------------------
(* Messages *)

\* the init built from the registry as it was before players[id] was set
InitMsgBeforeInsert(id, ps, t) ==
  [type |-> "init", id |-> id, players |-> Delete(ps, id), tiles |-> t]

InitMsg(id, ps, t) == [type |-> "init", id |-> id, players |-> ps, tiles |-> t]
PlayerJoinMsg(player) == [type |-> "playerJoin", player |-> player]
PlayerMoveMsg(player) ==
  [type |-> "playerMove", id |-> player.id, x |-> player.x, y |-> player.y]
PaintMsg(tilePos, player) ==
  [type |-> "paint", row |-> tilePos.row, col |-> tilePos.col,
   ownerId |-> player.id, color |-> player.color]
PlayerLeaveMsg(id) == [type |-> "playerLeave", id |-> id]

\* the sockets a namespace-wide emit reaches: those connected and in their room
Connected(socks) == {s \in DOMAIN socks : socks[s].state = "active"}

\* socket.emit(msg) written as io.emit(msg): every socket's inbox gets it
SocketEmitToAll(inb, s, msg) == [c \in DOMAIN inb |-> Append(inb[c], msg)]

\* socket.emit(msg) on socket s
SocketEmit(inb, s, msg) == [inb EXCEPT ![s] = Append(@, msg)]

\* socket.broadcast.emit(msg) written as io.emit(msg): s gets it too
BroadcastEmitToSelfToo(socks, inb, s, msg) ==
  [c \in DOMAIN inb |->
     IF c \in Connected(socks) THEN Append(inb[c], msg) ELSE inb[c]]

\* socket.broadcast.emit(msg) on socket s: every connected socket but s
BroadcastEmit(socks, inb, s, msg) ==
  [c \in DOMAIN inb |->
     IF c \in Connected(socks) /\ c # s THEN Append(inb[c], msg) ELSE inb[c]]

\* io.emit(msg): every connected socket
IoEmit(socks, inb, msg) ==
  [c \in DOMAIN inb |->
     IF c \in Connected(socks) THEN Append(inb[c], msg) ELSE inb[c]]

----------------------------------------------------------------------------
(* State after the module body has run *)

NoEvent == [type |-> "none", sock |-> 0, id |-> 0, dx |-> 0, dy |-> 0]

Init ==
  /\ players = << >>
  /\ tiles = resetTiles
  /\ sock = << >>
  /\ inbox = << >>
  /\ nextId = 1
  /\ last = NoEvent
  /\ events = 0
  /\ peak = 0

Processed(type, s, id, dx, dy) ==
  /\ last' = [type |-> type, sock |-> s, id |-> id, dx |-> dx, dy |-> dy]
  /\ events' = events + 1
  /\ peak' = Max(peak, Cardinality(DOMAIN players'))

\* an id derived from the number of players in the registry
idFromRegistrySize == Cardinality(DOMAIN players) + 1

\* uuidv4(): a value never returned before
uuidv4 == nextId

----------------------------------------------------------------------------
(* io.on('connection'): the token check *)

\* a token test that lets the empty string pass
NullishOnly(token) == token = NoToken

Falsy(token) == token \in {NoToken, ""}

ConnectionRejected(token) ==
  /\ Falsy(token) \/ token = "_"
  /\ sock' = Append(sock, [state |-> "rejected", id |-> 0])
  /\ inbox' = Append(inbox, << >>)
  /\ UNCHANGED <<players, tiles, nextId>>
  /\ Processed("reject", Len(sock) + 1, 0, 0, 0)

(* io.on('connection'): create the player, paint, init, playerJoin *)
ConnectionAccepted(token, rc, rx, ry) ==
  /\ ~(Falsy(token) \/ token = "_")
  /\ LET s == Len(sock) + 1
         id == uuidv4
         usedColors == {players[k].color : k \in DOMAIN players}
         color == getRandomColor(usedColors, rc)
         startX == RandomBelow(rx, CANVAS_WIDTH)
         startY == RandomBelow(ry, CANVAS_HEIGHT)
         player == [id |-> id, name |-> token, x |-> startX, y |-> startY,
                    color |-> color]
         ps == Put(players, id, player)
         t == paintTileForPlayer(tiles, player)
         socks == Append(sock, [state |-> "active", id |-> id])
         inb1 == SocketEmit(Append(inbox, << >>), s, InitMsg(id, ps, t))
         inb2 == BroadcastEmit(socks, inb1, s, PlayerJoinMsg(ps[id]))
     IN  /\ nextId' = nextId + 1
         /\ players' = ps
         /\ tiles' = t
         /\ sock' = socks
         /\ inbox' = inb2
         /\ Processed("connect", s, id, 0, 0)

Connection(token, rc, rx, ry) ==
  \/ ConnectionRejected(token)
  \/ ConnectionAccepted(token, rc, rx, ry)

----------------------------------------------------------------------------
(* the two broadcasts of the move handler, the paint emitted first *)
EmitPaintBeforeMove(socks, inb, player, tilePos) ==
  LET inb1 == IF tilePos # Null
              THEN IoEmit(socks, inb, PaintMsg(tilePos, player))
              ELSE inb
  IN  IoEmit(socks, inb1, PlayerMoveMsg(player))

(* the two broadcasts that end the move and the respawn handler *)
EmitMoveAndPaint(socks, inb, player, tilePos) ==
  LET inb1 == IoEmit(socks, inb, PlayerMoveMsg(player))
  IN  IF tilePos # Null
      THEN IoEmit(socks, inb1, PaintMsg(tilePos, player))
      ELSE inb1

(* what the move and the respawn handler do when players[id] is missing,  *)
(* written to announce the leave once more                                 *)
PlayerMissingAnnounced(id) ==
  /\ inbox' = IoEmit(sock, inbox, PlayerLeaveMsg(id))
  /\ UNCHANGED <<players, tiles>>

(* if (!player) return; *)
PlayerMissing(id) == UNCHANGED <<players, tiles, inbox>>

(* the body of socket.on('move') of socket s *)
MoveHandler(s, dx, dy) ==
  LET id == sock[s].id
  IN  /\ IF id \notin DOMAIN players
         THEN PlayerMissing(id)
         ELSE LET p == players[id]
                  player == [p EXCEPT
                    !.x = clamp(p.x + dx * speed, 0, CANVAS_WIDTH - 1),
                    !.y = clamp(p.y + dy * speed, 0, CANVAS_HEIGHT - 1)]
              IN  /\ players' = Put(players, id, player)
                  /\ tiles' = paintTileForPlayer(tiles, player)
                  /\ inbox' = EmitMoveAndPaint(sock, inbox, player, TilePos(player))
      /\ UNCHANGED <<sock, nextId>>
      /\ Processed("move", s, id, dx, dy)

(* the body of socket.on('respawn') of socket s *)
RespawnHandler(s, rx, ry) ==
  LET id == sock[s].id
  IN  /\ IF id \notin DOMAIN players
         THEN PlayerMissing(id)
         ELSE LET p == players[id]
                  player == [p EXCEPT
                    !.x = RandomBelow(rx, CANVAS_WIDTH),
                    !.y = RandomBelow(ry, CANVAS_HEIGHT)]
              IN  /\ players' = Put(players, id, player)
                  /\ tiles' = paintTileForPlayer(tiles, player)
                  /\ inbox' = EmitMoveAndPaint(sock, inbox, player, TilePos(player))
      /\ UNCHANGED <<sock, nextId>>
      /\ Processed("respawn", s, id, 0, 0)

(* socket.on('move') of socket s: a connected socket delivers a move *)
Move(s, dx, dy) ==
  /\ s \in Connected(sock)
  /\ MoveHandler(s, dx, dy)

(* socket.on('respawn') of socket s: a connected socket delivers a respawn *)
Respawn(s, rx, ry) ==
  /\ s \in Connected(sock)
  /\ RespawnHandler(s, rx, ry)

(* a move of socket s is handled after the disconnect of s *)
MoveAfterDisconnect(s, dx, dy) ==
  /\ s \in DOMAIN sock
  /\ sock[s].state = "closed"
  /\ MoveHandler(s, dx, dy)

(* a respawn of socket s is handled after the disconnect of s *)
RespawnAfterDisconnect(s, rx, ry) ==
  /\ s \in DOMAIN sock
  /\ sock[s].state = "closed"
  /\ RespawnHandler(s, rx, ry)

(* the disconnect handler, also clearing the tiles the leaving player owns *)
DisconnectHandlerClearingTiles(s, socks) ==
  LET id == sock[s].id
  IN  /\ players' = Delete(players, id)
      /\ inbox' = IoEmit(socks, inbox, PlayerLeaveMsg(id))
      /\ tiles' = [k \in {j \in DOMAIN tiles : tiles[j].ownerId # id} |-> tiles[k]]
      /\ UNCHANGED nextId
      /\ Processed("disconnect", s, id, 0, 0)

(* the body of socket.on('disconnect') of socket s, run with the sockets   *)
(* socks connected                                                         *)
DisconnectHandler(s, socks) ==
  LET id == sock[s].id
  IN  /\ players' = Delete(players, id)
      /\ inbox' = IoEmit(socks, inbox, PlayerLeaveMsg(id))
      /\ UNCHANGED <<tiles, nextId>>
      /\ Processed("disconnect", s, id, 0, 0)

(* socket s closes: it has left its rooms when 'disconnect' fires *)
Disconnect(s) ==
  /\ s \in Connected(sock)
  /\ sock' = [sock EXCEPT ![s].state = "closed"]
  /\ DisconnectHandler(s, sock')

(* the disconnect handler of an already closed socket is run once more *)
DisconnectAgain(s) ==
  /\ s \in DOMAIN sock
  /\ sock[s].state = "closed"
  /\ sock' = sock
  /\ DisconnectHandler(s, sock')

----------------------------------------------------------------------------
(* Specifications *)

Next ==
  /\ events < MaxEvents
  /\ \/ /\ Len(sock) < MaxSockets
        /\ \E token \in Tokens, rc \in RandNums, rxy \in RandPairs :
             Connection(token, rc, rxy[1], rxy[2])
     \/ \E s \in DOMAIN sock, dx, dy \in Deltas : Move(s, dx, dy)
     \/ \E s \in DOMAIN sock, rxy \in RandPairs : Respawn(s, rxy[1], rxy[2])
     \/ \E s \in DOMAIN sock : Disconnect(s)

Spec == Init /\ [][Next]_vars

(* Filling the palette: every socket is accepted and spawns at the origin, *)
(* and the oldest or the newest socket closes once the registry holds as   *)
(* many players as the palette has colours.                                *)
NextFill ==
  /\ events < FillEvents
  /\ \/ /\ Len(sock) < FillSockets
        /\ \E rc \in RandNums : ConnectionAccepted("ann", rc, 0, 0)
     \/ /\ Cardinality(DOMAIN players) >= Len(COLORS)
        /\ \E s \in {1, Len(sock)} : Disconnect(s)

SpecFill == Init /\ [][NextFill]_vars

(* The events of Spec, and the handlers of a socket run after its          *)
(* disconnect was handled                                                  *)
NextRerun ==
  \/ Next
  \/ /\ events < MaxEvents
     /\ \E s \in DOMAIN sock : DisconnectAgain(s)
  \/ /\ events < MaxEvents
     /\ \E s \in DOMAIN sock, dx, dy \in Deltas : MoveAfterDisconnect(s, dx, dy)
  \/ /\ events < MaxEvents
     /\ \E s \in DOMAIN sock, rxy \in RandPairs :
          RespawnAfterDisconnect(s, rxy[1], rxy[2])

SpecRerun == Init /\ [][NextRerun]_vars

----------------------------------------------------------------------------
(* Vocabulary of the properties *)

\* the step just taken processed an event of one of the given types
Step(types) == events' = events + 1 /\ last'.type \in types

\* the tile index a position maps to
TileOf(p) == <<p.y \div 10, p.x \div 10>>

Accepted(s) == sock[s].state \in {"active", "closed"}

\* one message applied to a client's copy of the world
Apply(w, m) ==
  CASE m.type = "playerJoin" ->
         [w EXCEPT !.players = Put(w.players, m.player.id, m.player)]
    [] m.type = "playerMove" ->
         IF m.id \in DOMAIN w.players
         THEN [w EXCEPT !.players[m.id].x = m.x, !.players[m.id].y = m.y]
         ELSE w
    [] m.type = "paint" ->
         [w EXCEPT !.tiles =
            [k \in DOMAIN w.tiles \cup {<<m.row, m.col>>} |->
               IF k = <<m.row, m.col>>
               THEN [ownerId |-> m.ownerId, color |-> m.color]
               ELSE w.tiles[k]]]
    [] m.type = "playerLeave" ->
         [w EXCEPT !.players = Delete(w.players, m.id)]
    [] OTHER -> w

RECURSIVE ApplyAll(_, _)
ApplyAll(w, box) ==
  IF box = << >> THEN w ELSE ApplyAll(Apply(w, Head(box)), Tail(box))

\* the world a client holds: its init snapshot with every later message applied
World(box) ==
  ApplyAll([players |-> Head(box).players, tiles |-> Head(box).tiles], Tail(box))

DistinctColors ==
  \A a, b \in DOMAIN players : a # b => players[a].color # players[b].color

----------------------------------------------------------------------------
(* C1: for every connected client, its init snapshot with the messages it  *)
(* received afterwards applied in order equals the server's players and    *)
(* tiles, after every processed event.                                     *)
C1_DeltaConsistency ==
  \A s \in Connected(sock) :
    /\ inbox[s] # << >>
    /\ Head(inbox[s]).type = "init"
    /\ World(inbox[s]) = [players |-> players, tiles |-> tiles]

(* C2: every player in the registry has 0 <= x < 800 and 0 <= y < 600.     *)
C2_InBounds ==
  \A id \in DOMAIN players :
    /\ players[id].x \in 0 .. (800 - 1)
    /\ players[id].y \in 0 .. (600 - 1)

\* a move towards the far corner has been clamped at both borders
C2_Witness ==
  /\ last.type = "move" /\ last.dx = 1 /\ last.dy = 1
  /\ last.id \in DOMAIN players
  /\ players[last.id].x = 799 /\ players[last.id].y = 599

(* C3: a tile that is non-empty stays non-empty over every step.           *)
C3_NeverEmptied == [][\A k \in DOMAIN tiles : k \in DOMAIN tiles']_vars

\* a tile has outlived its owner's disconnect and a later move or respawn
C3_Witness ==
  /\ last.type \in {"move", "respawn"}
  /\ \E k \in DOMAIN tiles : tiles[k].ownerId \notin DOMAIN players

(* C4: a disconnect changes no tile; a tile changes value only when the    *)
(* position of another participant's connect, move or respawn maps into    *)
(* it; and the init of a joiner carries the grid of that moment, so every  *)
(* tile keeps the owner and colour it had at a disconnect in later inits   *)
(* unless it was painted in between.                                       *)
C4_DisconnectKeepsGrid ==
  [][ /\ Step({"disconnect"}) => tiles' = tiles
      /\ \A k \in DOMAIN tiles :
           (k \notin DOMAIN tiles' \/ tiles'[k] # tiles[k]) =>
             /\ Step({"connect", "move", "respawn"})
             /\ last'.id \in DOMAIN players'
             /\ last'.id # tiles[k].ownerId
             /\ TileOf(players'[last'.id]) = k
      /\ Step({"connect"}) =>
           LET m == Head(inbox'[last'.sock])
           IN  /\ m.type = "init"
               /\ m.tiles = tiles'
               /\ \A k \in DOMAIN tiles :
                    k # TileOf(players'[last'.id]) =>
                      k \in DOMAIN m.tiles /\ m.tiles[k] = tiles[k]
    ]_vars

\* the init of a connected joiner holds a tile of a participant that had left
C4_Witness ==
  \E s \in Connected(sock) :
    /\ inbox[s] # << >>
    /\ \E k \in DOMAIN Head(inbox[s]).tiles :
         Head(inbox[s]).tiles[k].ownerId \notin DOMAIN Head(inbox[s]).players

(* C5 as stated: whenever at most 12 participants are connected, no two of *)
(* them share a colour, whatever the history.                              *)
C5_UniqueWhenAtMost12 ==
  Cardinality(DOMAIN players) <= 12 => DistinctColors

(* C5 as amended: as long as the registry has never held more than 12      *)
(* participants at once, no two connected participants share a colour.     *)
C5_UniqueUntilExhausted == peak <= 12 => DistinctColors

\* twelve participants are connected after one has left and another joined,
\* and the palette was never exceeded
C5_Witness ==
  /\ Cardinality(DOMAIN players) = 12
  /\ peak = 12
  /\ \E s \in DOMAIN sock : sock[s].state = "closed"

\* how often a message occurs in an inbox
Count(box, m) == Cardinality({i \in DOMAIN box : box[i] = m})

(* C6: running the disconnect handler a second time for the same          *)
(* participant changes no state and sends no message.                      *)
C6_DisconnectIdempotent ==
  [][ (Step({"disconnect"}) /\ sock[last'.sock].state = "closed") =>
        /\ players' = players
        /\ tiles' = tiles
        /\ inbox' = inbox
    ]_vars

(* C7: every move or respawn of a registered participant appends to the    *)
(* inbox of every connected client, the acting one included, exactly       *)
(* playerMove{id, x, y} and then paint{row, col, ownerId, color}, carrying *)
(* the position after the event and the tile it maps to, which the grid    *)
(* then holds; no other client receives anything.                          *)
C7_MoveThenPaint ==
  [][ Step({"move", "respawn"}) =>
        LET id == last'.id
            p == players'[id]
            moved == [type |-> "playerMove", id |-> id, x |-> p.x, y |-> p.y]
            painted == [type |-> "paint", row |-> p.y \div 10, col |-> p.x \div 10,
                        ownerId |-> id, color |-> p.color]
        IN  /\ id \in DOMAIN players /\ id \in DOMAIN players'
            /\ last'.sock \in Connected(sock)
            /\ TileOf(p) \in DOMAIN tiles'
            /\ tiles'[TileOf(p)] = [ownerId |-> id, color |-> p.color]
            /\ \A c \in DOMAIN sock :
                 inbox'[c] = IF c \in Connected(sock)
                             THEN inbox[c] \o <<moved, painted>>
                             ELSE inbox[c]
    ]_vars

\* a move with dx = dy = 0 was processed while another client was connected
C7_Witness ==
  /\ last.type = "move" /\ last.dx = 0 /\ last.dy = 0
  /\ Cardinality(Connected(sock)) >= 2

(* C8: every accepted socket has received init exactly once, as its first  *)
(* message, and no other socket has received anything; the init of a       *)
(* connect carries the registry and the grid after the connect: the new    *)
(* participant, every other connected participant unchanged, nobody who    *)
(* has left, the spawn tile owned by the new participant and every tile    *)
(* painted before.                                                         *)
C8_InitFirstAndOnce ==
  \A s \in DOMAIN sock :
    IF Accepted(s)
    THEN /\ inbox[s] # << >>
         /\ Head(inbox[s]).type = "init"
         /\ Head(inbox[s]).id = sock[s].id
         /\ \A i \in 2 .. Len(inbox[s]) : inbox[s][i].type # "init"
    ELSE inbox[s] = << >>

C8_InitSnapshot ==
  /\ []C8_InitFirstAndOnce
  /\ [][ Step({"connect"}) =>
          LET s == last'.sock
              id == last'.id
              m == Head(inbox'[s])
          IN  /\ inbox'[s] = <<m>>
              /\ m.type = "init" /\ m.id = id
              /\ id \notin DOMAIN players
              /\ m.players = players'
              /\ DOMAIN m.players = DOMAIN players \cup {id}
              /\ DOMAIN m.players = {sock'[c].id : c \in Connected(sock')}
              /\ \A k \in DOMAIN players : m.players[k] = players[k]
              /\ m.players[id].id = id
              /\ m.tiles = tiles'
              /\ TileOf(m.players[id]) \in DOMAIN m.tiles
              /\ m.tiles[TileOf(m.players[id])] =
                   [ownerId |-> id, color |-> m.players[id].color]
              /\ \A k \in DOMAIN tiles :
                   /\ k \in DOMAIN m.tiles
                   /\ k # TileOf(m.players[id]) => m.tiles[k] = tiles[k]
      ]_vars

\* a connect was processed with another participant connected and one gone
C8_Witness ==
  /\ last.type = "connect"
  /\ Cardinality(DOMAIN players) >= 2
  /\ \E c \in DOMAIN sock : sock[c].state = "closed"

(* C9: an accepted connect appends playerJoin with the new participant's   *)
(* record to the inbox of every client connected at that moment, exactly   *)
(* once, and no socket ever receives the playerJoin of its own participant.*)
C9_NoOwnJoin ==
  \A s \in DOMAIN sock : \A i \in DOMAIN inbox[s] :
    inbox[s][i].type = "playerJoin" =>
      /\ inbox[s][i].player.id # sock[s].id
      /\ \A j \in DOMAIN inbox[s] :
           (inbox[s][j].type = "playerJoin" /\
            inbox[s][j].player.id = inbox[s][i].player.id) => j = i

C9_JoinToOthers ==
  /\ []C9_NoOwnJoin
  /\ [][ Step({"connect"}) =>
          LET s == last'.sock
              id == last'.id
              joined == [type |-> "playerJoin", player |-> players'[id]]
          IN  /\ players'[id].id = id
              /\ DOMAIN players'[id] = {"id", "name", "x", "y", "color"}
              /\ \A c \in DOMAIN sock :
                   inbox'[c] = IF c \in Connected(sock)
                               THEN Append(inbox[c], joined)
                               ELSE inbox[c]
              /\ \A i \in DOMAIN inbox'[s] : inbox'[s][i].type # "playerJoin"
      ]_vars

\* a connect was processed while two other clients were connected
C9_Witness ==
  /\ last.type = "connect"
  /\ Cardinality(Connected(sock) \ {last.sock}) >= 2

(* C10: a disconnect removes the participant from the registry, leaves     *)
(* every other record as it was, and appends playerLeave{id} once to the   *)
(* inbox of every client that remains connected and to no other inbox; no  *)
(* inbox ever holds two playerLeave for one id.                            *)
C10_OneLeavePerId ==
  \A s \in DOMAIN sock : \A i \in DOMAIN inbox[s] :
    inbox[s][i].type = "playerLeave" => Count(inbox[s], inbox[s][i]) = 1

C10_LeaveToRemaining ==
  /\ []C10_OneLeavePerId
  /\ [][ Step({"disconnect"}) =>
          LET s == last'.sock
              id == last'.id
              left == [type |-> "playerLeave", id |-> id]
          IN  /\ id \in DOMAIN players
              /\ id \notin DOMAIN players'
              /\ DOMAIN players' = DOMAIN players \ {id}
              /\ \A k \in DOMAIN players' : players'[k] = players[k]
              /\ s \notin Connected(sock')
              /\ \A c \in DOMAIN sock :
                   inbox'[c] = IF c \in Connected(sock')
                               THEN Append(inbox[c], left)
                               ELSE inbox[c]
      ]_vars

\* a disconnect was processed and two clients remain connected
C10_Witness ==
  /\ last.type = "disconnect"
  /\ Cardinality(Connected(sock)) >= 2

(* C11: a move or respawn handled when its participant is no longer in the *)
(* registry changes neither the registry nor any tile nor any socket and   *)
(* sends nothing to any client.                                            *)
C11_StaleEventIsNoOp ==
  [][ (Step({"move", "respawn"}) /\ last'.id \notin DOMAIN players) =>
        /\ players' = players
        /\ tiles' = tiles
        /\ inbox' = inbox
        /\ sock' = sock
    ]_vars

\* a move with a non-zero delta was handled for a participant that had left,
\* while another client was connected
C11_Witness ==
  /\ last.type = "move" /\ last.dx # 0
  /\ last.sock \in DOMAIN sock
  /\ sock[last.sock].state = "closed"
  /\ last.id \notin DOMAIN players
  /\ Connected(sock) # {}

\* the participant a message is about (0 for init)
About(m) ==
  CASE m.type = "playerJoin" -> m.player.id
    [] m.type = "playerMove" -> m.id
    [] m.type = "paint" -> m.ownerId
    [] m.type = "playerLeave" -> m.id
    [] OTHER -> 0

\* before its i-th message the client learned of participant P
LearnedBefore(box, i, P) ==
  \/ i > 1 /\ box[1].type = "init" /\ P \in DOMAIN box[1].players
  \/ \E j \in 1 .. (i - 1) : box[j].type = "playerJoin" /\ box[j].player.id = P

(* C12: in every client's inbox, a playerMove or paint about P comes after *)
(* the init listing P or a playerJoin of P and before any playerLeave of   *)
(* P; a playerLeave of P comes after the client learned of P, and no       *)
(* message about P follows it.                                             *)
C12_JoinMoveLeaveOrder ==
  \A s \in DOMAIN sock : \A i \in DOMAIN inbox[s] :
    LET box == inbox[s]
        m == box[i]
    IN  /\ m.type \in {"playerMove", "paint"} =>
             /\ LearnedBefore(box, i, About(m))
             /\ \A j \in 1 .. (i - 1) :
                  ~(box[j].type = "playerLeave" /\ box[j].id = About(m))
        /\ m.type = "playerLeave" =>
             /\ LearnedBefore(box, i, m.id)
             /\ \A j \in (i + 1) .. Len(box) : About(box[j]) # m.id

\* a client received the join, then a move, then the leave of one participant
C12_Witness ==
  \E s \in DOMAIN sock : \E i, j, k \in DOMAIN inbox[s] :
    /\ i < j /\ j < k
    /\ inbox[s][i].type = "playerJoin"
    /\ inbox[s][j].type = "playerMove"
    /\ inbox[s][k].type = "playerLeave"
    /\ inbox[s][j].id = inbox[s][i].player.id
    /\ inbox[s][k].id = inbox[s][i].player.id

(* C13: the position of every participant maps to a tile index inside      *)
(* [0,60) x [0,80), and every connect, move and respawn writes exactly the *)
(* tile (floor(y/10), floor(x/10)) of the acting participant's position,   *)
(* so the branch of paintTileForPlayer that skips the write is never taken.*)
C13_IndexInGrid ==
  \A id \in DOMAIN players :
    /\ players[id].y \div 10 \in 0 .. 59
    /\ players[id].x \div 10 \in 0 .. 79

C13_PaintInBounds ==
  /\ []C13_IndexInGrid
  /\ [][ Step({"connect", "move", "respawn"}) =>
          LET p == players'[last'.id]
              row == p.y \div 10
              col == p.x \div 10
          IN  /\ row \in 0 .. 59 /\ col \in 0 .. 79
              /\ <<row, col>> \in DOMAIN tiles'
              /\ tiles'[<<row, col>>] = [ownerId |-> p.id, color |-> p.color]
              /\ DOMAIN tiles' = DOMAIN tiles \cup {<<row, col>>}
              /\ \A k \in DOMAIN tiles : k # <<row, col>> => tiles'[k] = tiles[k]
      ]_vars

\* a participant was painted into the last row and the last column
C13_Witness ==
  /\ last.type \in {"connect", "move", "respawn"}
  /\ last.id \in DOMAIN players
  /\ <<59, 79>> \in DOMAIN tiles
  /\ tiles[<<59, 79>>].ownerId = last.id

\* the messages a step appended to the inbox of socket c
Appended(c) ==
  IF c \in DOMAIN inbox
  THEN SubSeq(inbox'[c], Len(inbox[c]) + 1, Len(inbox'[c]))
  ELSE inbox'[c]

(* C14: every record of the registry sits under its own id, no two         *)
(* accepted sockets hold the same id, and the id of a closed socket is not *)
(* in the registry; a closed socket stays closed, its id never returns to  *)
(* the registry, and no playerJoin, playerMove or paint carrying its id is *)
(* emitted any more.                                                       *)
C14_IdsDistinct ==
  /\ \A k \in DOMAIN players : players[k].id = k
  /\ \A s, t \in DOMAIN sock :
       (Accepted(s) /\ Accepted(t) /\ s # t) => sock[s].id # sock[t].id
  /\ \A s \in DOMAIN sock :
       sock[s].state = "closed" => sock[s].id \notin DOMAIN players

C14_IdsNeverReused ==
  /\ []C14_IdsDistinct
  /\ [][ \A s \in DOMAIN sock :
           sock[s].state = "closed" =>
             /\ sock'[s] = sock[s]
             /\ sock[s].id \notin DOMAIN players'
             /\ \A c \in DOMAIN inbox' : \A i \in DOMAIN Appended(c) :
                  Appended(c)[i].type \in {"playerJoin", "playerMove", "paint"} =>
                    About(Appended(c)[i]) # sock[s].id
      ]_vars

\* a socket was accepted and given its id after an earlier socket had closed
C14_Witness ==
  /\ last.type = "connect"
  /\ \E s \in DOMAIN sock :
       s < last.sock /\ sock[s].state = "closed" /\ sock[s].id < last.id

(* C15: a connection whose token is missing, empty or '_' creates no       *)
(* participant, paints no tile and sends nothing: the step leaves the      *)
(* registry, the grid and every inbox as they were, the rejected socket    *)
(* never receives a message, no participant ever carries such a token as   *)
(* its name, and no move, respawn or disconnect is handled for it.         *)
C15_RejectedStaysOutside ==
  /\ \A id \in DOMAIN players : players[id].name \notin {"<undefined>", "", "_"}
  /\ \A s \in DOMAIN sock :
       sock[s].state = "rejected" =>
         /\ inbox[s] = << >>
         /\ sock[s].id \notin DOMAIN players
  /\ last.type \in {"move", "respawn", "disconnect"} =>
       sock[last.sock].state # "rejected"

C15_RejectedNeverReachesCore ==
  /\ []C15_RejectedStaysOutside
  /\ [][ /\ Step({"reject"}) =>
             /\ players' = players
             /\ tiles' = tiles
             /\ nextId' = nextId
             /\ sock'[last'.sock].state = "rejected"
             /\ \A c \in DOMAIN inbox : inbox'[c] = inbox[c]
             /\ inbox'[last'.sock] = << >>
          /\ \A s \in DOMAIN sock :
               sock[s].state = "rejected" => sock'[s] = sock[s]
      ]_vars

\* a socket was rejected while a client was connected, and events followed
C15_Witness ==
  /\ last.type \in {"move", "respawn", "disconnect"}
  /\ \E s, c \in DOMAIN sock :
       c < s /\ sock[s].state = "rejected" /\ Accepted(c)

\* v limited to lo .. hi
Limit(v, lo, hi) == IF v < lo THEN lo ELSE IF v > hi THEN hi ELSE v

(* C16: a move {dx, dy} of a registered participant at (x, y) puts it at   *)
(* (clamp(x + 4*dx, 0, 799), clamp(y + 4*dy, 0, 599)) and leaves its id,   *)
(* name and colour and every other participant's record as they were.      *)
C16_MoveSetsClampedPosition ==
  [][ (Step({"move"}) /\ last'.id \in DOMAIN players) =>
        LET id == last'.id
            old == players[id]
        IN  /\ last'.dx \in {-1, 0, 1} /\ last'.dy \in {-1, 0, 1}
            /\ DOMAIN players' = DOMAIN players
            /\ players'[id] =
                 [id |-> old.id, name |-> old.name, color |-> old.color,
                  x |-> Limit(old.x + 4 * last'.dx, 0, 799),
                  y |-> Limit(old.y + 4 * last'.dy, 0, 599)]
            /\ \A k \in DOMAIN players : k # id => players'[k] = players[k]
    ]_vars

\* a participant moved from the origin: x advanced by 4, y clamped at 0,
\* next to another participant
C16_Witness ==
  /\ last.type = "move" /\ last.dx = 1 /\ last.dy = -1
  /\ last.id \in DOMAIN players
  /\ players[last.id].x = 4 /\ players[last.id].y = 0
  /\ Cardinality(DOMAIN players) >= 2

\* the twelve colours of the palette
Palette == {COLORS[i] : i \in 1 .. 12}

(* C17: every accepted connect gives the new participant a colour of the   *)
(* palette; when the participants connected at that moment do not use all  *)
(* twelve colours it differs from the colour of each of them, and when     *)
(* they use all twelve the connect still succeeds with a palette colour.   *)
C17_ColorOnConnect ==
  [][ Step({"connect"}) =>
        LET id == last'.id
            used == {players[k].color : k \in DOMAIN players}
        IN  /\ id \in DOMAIN players'
            /\ last'.sock \in Connected(sock')
            /\ players'[id].color \in Palette
            /\ used # Palette => players'[id].color \notin used
    ]_vars

\* a thirteenth participant was accepted while all twelve colours were in use
C17_Witness ==
  /\ last.type = "connect"
  /\ Cardinality(DOMAIN players) = 13
  /\ {players[k].color : k \in DOMAIN players} = Palette

\* the step changed the value of tile k
Changed(k) ==
  \/ k \notin DOMAIN tiles
  \/ k \notin DOMAIN tiles'
  \/ tiles'[k] # tiles[k]

(* C18: a step that changes a tile is a connect, move or respawn whose     *)
(* acting participant's new position maps into that tile, the tile then    *)
(* holds that participant's id and colour, and no other tile changes; and  *)
(* after each such event the tile under the acting participant is owned by *)
(* it, so the owner of a tile is the last participant that mapped into it. *)
C18_LastWriteWins ==
  [][ /\ \A k \in DOMAIN tiles \cup DOMAIN tiles' :
           Changed(k) =>
             /\ Step({"connect", "move", "respawn"})
             /\ last'.id \in DOMAIN players'
             /\ k = TileOf(players'[last'.id])
             /\ k \in DOMAIN tiles'
             /\ tiles'[k] = [ownerId |-> last'.id,
                             color |-> players'[last'.id].color]
      /\ (Step({"connect", "move", "respawn"}) /\ last'.id \in DOMAIN players') =>
           /\ TileOf(players'[last'.id]) \in DOMAIN tiles'
           /\ tiles'[TileOf(players'[last'.id])].ownerId = last'.id
    ]_vars

\* a participant took over the tile another participant is standing on
C18_Witness ==
  /\ last.type \in {"connect", "move", "respawn"}
  /\ last.id \in DOMAIN players
  /\ tiles[TileOf(players[last.id])].ownerId = last.id
  /\ \E q \in DOMAIN players :
       q # last.id /\ TileOf(players[q]) = TileOf(players[last.id])

(* C19: the tile under every registered participant is non-empty; it is    *)
(* owned by the participant once its connect, move or respawn has put it   *)
(* there, and a participant that stays on its tile stops owning it only in *)
(* a step in which another participant's position maps into that tile.     *)
C19_TileUnderPlayerPainted ==
  \A id \in DOMAIN players : TileOf(players[id]) \in DOMAIN tiles

C19_OwnTileUnlessOverpainted ==
  /\ []C19_TileUnderPlayerPainted
  /\ [][ \A id \in DOMAIN players' :
           LET k == TileOf(players'[id])
           IN  /\ k \in DOMAIN tiles'
               /\ (events' = events + 1 /\ last'.id = id) =>
                    tiles'[k].ownerId = id
               /\ ( /\ id \in DOMAIN players
                    /\ players'[id] = players[id]
                    /\ k \in DOMAIN tiles
                    /\ tiles[k].ownerId = id
                    /\ tiles'[k].ownerId # id ) =>
                    /\ Step({"connect", "move", "respawn"})
                    /\ last'.id # id
                    /\ last'.id \in DOMAIN players'
                    /\ TileOf(players'[last'.id]) = k
                    /\ tiles'[k].ownerId = last'.id
      ]_vars

\* a participant stands on a tile whose owner mapped into it later and has
\* since left
C19_Witness ==
  \E id \in DOMAIN players :
    /\ TileOf(players[id]) \in DOMAIN tiles
    /\ tiles[TileOf(players[id])].ownerId > id
    /\ tiles[TileOf(players[id])].ownerId \notin DOMAIN players

(* C20: the ids of the registry are exactly the ids of the sockets that    *)
(* were accepted and have not disconnected, one participant for each, and  *)
(* no rejected or closed socket has a participant.                         *)
C20_RegistryIsActiveSockets ==
  /\ DOMAIN players = {sock[s].id : s \in {c \in DOMAIN sock : sock[c].state = "active"}}
  /\ Cardinality(DOMAIN players) =
       Cardinality({c \in DOMAIN sock : sock[c].state = "active"})
  /\ \A s \in DOMAIN sock :
       sock[s].state \in {"rejected", "closed"} => sock[s].id \notin DOMAIN players

\* one socket is connected, one has disconnected and one was rejected
C20_Witness ==
  /\ \E s \in DOMAIN sock : sock[s].state = "active"
  /\ \E s \in DOMAIN sock : sock[s].state = "closed"
  /\ \E s \in DOMAIN sock : sock[s].state = "rejected"
  /\ last.type = "disconnect"

====
